---- MODULE Spec2Model ----
(***************************************************************************)
(* Model of the cert-manager metrics package (giantswarm fork):            *)
(*   - Metrics.NewServer: the registration loop over metricsToRegister     *)
(*     against the private prometheus registry of the Metrics object;      *)
(*   - the incremental path on the gauge vector m.certificateRequestCount  *)
(*     (IncrementCurrentCertificateRequest / Decrement...);                *)
(*   - the full recomputation path on the package-level counter vector     *)
(*     currentCertificateRequestCount (UpdateCurrentCertificateRequest-    *)
(*     Count, HandleCertificateRequestEvent), in both source variants.     *)
(* A vector is a function from the label-value tuples that have a cell to  *)
(* the cell's value.                                                       *)
(***************************************************************************)
EXTENDS Integers, Sequences, FiniteSets, TLC

VARIABLES
    registry,                        \* m.registry: collectorsByID and dimHashesByName
    nsLog,                           \* log lines of the last NewServer call, in order
    servers,                         \* number of servers NewServer has returned
    certificateRequestCount,         \* the gauge vector m.certificateRequestCount
    currentCertificateRequestCount,  \* the package-level counter vector
    variant,                         \* which source variant of the recomputation is built
    log,                             \* last line logged by an update-path handler
    lastSnap,                        \* snapshots of the trailing run of recomputations
    wk,                              \* incremental-path workers (goroutines)
    issued,                          \* per tuple: calls issued, their net sum, overlaps
    up,                              \* recomputation goroutines
    scraped,                         \* what the last scrape of a registry returned
    panicked,                        \* the panic value the last update call raised
    world,                           \* the CertificateRequests that exist in the cluster
    fresh,                           \* last handler started, its fetch, changes since
    controllerSyncCallCount,         \* the counter vector m.controllerSyncCallCount
    controllerSyncErrorCount,        \* the counter vector m.controllerSyncErrorCount
    rc,                              \* reconciliation workers of the controllers
    ns                               \* the NewServer call in progress, step by step

regVars == <<registry, nsLog, servers>>
vecVars == <<certificateRequestCount, currentCertificateRequestCount>>
seqVars == <<variant, log, lastSnap>>
conVars == <<wk, issued, up, scraped>>
envVars == <<world, fresh>>
syncVars == <<controllerSyncCallCount, controllerSyncErrorCount, rc>>
extVars == <<panicked, envVars, syncVars, ns>>
vars == <<registry, nsLog, servers, certificateRequestCount,
          currentCertificateRequestCount, variant, log, lastSnap,
          wk, issued, up, scraped, panicked, world, fresh,
          controllerSyncCallCount, controllerSyncErrorCount, rc, ns>>

----------------------------------------------------------------------------
(* Bounds of the model. *)

MaxServers == 3      \* NewServer calls on the one Metrics object
MaxGauge == 2        \* |value| of a gauge cell reached by Increment/Decrement
MaxSnap == 2         \* records in a certificate-request snapshot
MaxForeign == 2      \* definitions attached to the registry by other registrants
MaxCalls == 3        \* concurrent Increment/Decrement calls issued in all
MaxUpdates == 1      \* recomputations each goroutine starts
MaxCount == 2        \* value of a counter cell (the variant without Reset accumulates)

----------------------------------------------------------------------------
(* Certificate requests and label tuples. *)

crA == [name |-> "cert-a", namespace |-> "ns1", issuerName |-> "issuer1",
        issuerKind |-> "ClusterIssuer", issuerGroup |-> "cert-manager.io"]
crB == [name |-> "cert-b", namespace |-> "ns1", issuerName |-> "issuer1",
        issuerKind |-> "ClusterIssuer", issuerGroup |-> "cert-manager.io"]

CertificateRequests == {crA, crB}

\* The label values of a record in the order of the label names
\* name, namespace, issuer_name, issuer_kind, issuer_group.
LabelValues(cr) ==
    <<cr.name, cr.namespace, cr.issuerName, cr.issuerKind, cr.issuerGroup>>

Tuples == {LabelValues(cr) : cr \in CertificateRequests}

\* All snapshots (sequences of records) of at most MaxSnap records.
Snapshots == UNION {[1..n -> CertificateRequests] : n \in 0..MaxSnap}

\* Number of records of a snapshot carrying label tuple t.
Occurrences(crs, t) == Cardinality({i \in DOMAIN crs : LabelValues(crs[i]) = t})

\* The vector that groups a snapshot by label tuple.
CountVec(crs) ==
    [t \in {LabelValues(crs[i]) : i \in DOMAIN crs} |-> Occurrences(crs, t)]

EmptyVec == [t \in {} |-> 0]

----------------------------------------------------------------------------
(* Vector instruments (prometheus GaugeVec / CounterVec as used by the     *)
(* package).                                                               *)

\* vec.WithLabelValues(t) / vec.With(labels): the cell of t, created with
\* value 0 if the vector has none.
WithLabelValuesAlwaysNew(vec, t) ==
    [u \in DOMAIN vec \cup {t} |-> IF u = t THEN 0 ELSE vec[u]]

WithLabelValues(vec, t) ==
    IF t \in DOMAIN vec THEN vec
    ELSE [u \in DOMAIN vec \cup {t} |-> IF u = t THEN 0 ELSE vec[u]]

\* cell.Inc() / cell.Dec() on the cell of t.
AddAll(vec, t, d) == [u \in DOMAIN vec |-> vec[u] + d]

AddEvictZero(vec, t, d) ==
    [u \in {x \in DOMAIN vec : x # t \/ vec[x] + d # 0} |->
        IF u = t THEN vec[u] + d ELSE vec[u]]

Add(vec, t, d) == [vec EXCEPT ![t] = @ + d]

\* vec.Reset(): every cell is deleted.
Reset(vec) == EmptyVec

\* The loop of UpdateCurrentCertificateRequestCount: With(labels).Inc() per
\* record, in snapshot order.
RECURSIVE Populate(_, _, _)
Populate(vec, crs, i) ==
    IF i > Len(crs) THEN vec
    ELSE Populate(Add(WithLabelValues(vec, LabelValues(crs[i])),
                      LabelValues(crs[i]), 1), crs, i + 1)

----------------------------------------------------------------------------
(* Instruments built by New and the prometheus registry of the Metrics     *)
(* object.                                                                 *)

LabelsCR == <<"name", "namespace", "issuer_name", "issuer_kind", "issuer_group">>
LabelsACME == <<"scheme", "host", "path", "method", "status">>

\* The fully-qualified name and the label names of each instrument of New.
Desc(field) ==
    CASE field = "certificateRequestCount" ->
           [fqName |-> "current_certificate_request_count", labels |-> LabelsCR]
      [] field = "clockTimeSeconds" ->
           [fqName |-> "certmanager_clock_time_seconds", labels |-> <<>>]
      [] field = "clockTimeSecondsGauge" ->
           [fqName |-> "certmanager_clock_time_seconds_gauge", labels |-> <<>>]
      [] field = "certificateExpiryTimeSeconds" ->
           [fqName |-> "certmanager_certificate_expiration_timestamp_seconds",
            labels |-> LabelsCR]
      [] field = "certificateRenewalTimeSeconds" ->
           [fqName |-> "certmanager_certificate_renewal_timestamp_seconds",
            labels |-> LabelsCR]
      [] field = "certificateReadyStatus" ->
           [fqName |-> "certmanager_certificate_ready_status",
            labels |-> <<"name", "namespace", "condition", "issuer_name",
                         "issuer_kind", "issuer_group">>]
      [] field = "acmeClientRequestDurationSeconds" ->
           [fqName |-> "certmanager_http_acme_client_request_duration_seconds",
            labels |-> LabelsACME]
      [] field = "venafiClientRequestDurationSeconds" ->
           [fqName |-> "certmanager_http_venafi_client_request_duration_seconds",
            labels |-> <<"api_call">>]
      [] field = "acmeClientRequestCount" ->
           [fqName |-> "certmanager_http_acme_client_request_count",
            labels |-> LabelsACME]
      [] field = "controllerSyncCallCount" ->
           [fqName |-> "certmanager_controller_sync_call_count",
            labels |-> <<"controller">>]
      [] field = "controllerSyncErrorCount" ->
           [fqName |-> "certmanager_controller_sync_error_count",
            labels |-> <<"controller">>]

\* The list NewServer registers, in its order.
metricsToRegister ==
    <<"certificateRequestCount", "clockTimeSeconds", "clockTimeSecondsGauge",
      "certificateExpiryTimeSeconds", "certificateRenewalTimeSeconds",
      "certificateReadyStatus", "acmeClientRequestDurationSeconds",
      "venafiClientRequestDurationSeconds", "acmeClientRequestCount",
      "controllerSyncCallCount", "controllerSyncErrorCount">>

Instruments == {metricsToRegister[i] : i \in DOMAIN metricsToRegister}

\* A collector as the registry sees it: the field of Metrics that holds it
\* and its one descriptor (none of the instruments has constant labels).
Collector(field) ==
    [field |-> field, fqName |-> Desc(field).fqName, constLabels |-> <<>>,
     labels |-> Desc(field).labels]

\* The identity of a descriptor is its fully-qualified name and the values
\* of its constant labels; its dimensions are all its label names.
DescId(c) == <<c.fqName, [i \in DOMAIN c.constLabels |-> c.constLabels[i][2]]>>
DimHash(c) == <<[i \in DOMAIN c.constLabels |-> c.constLabels[i][1]], c.labels>>

\* prometheus.NewRegistry()
NewRegistry == [collectorsByID |-> {}, dimHashesByName |-> {}]

\* registry.Unregister(c): removes the collector registered under the
\* identity of c and reports whether there was one. The dimensions recorded
\* for the name are kept.
RegistryUnregister(reg, c) ==
    IF \E e \in reg.collectorsByID : DescId(e) = DescId(c)
    THEN [registry |-> [reg EXCEPT !.collectorsByID =
                            {e \in @ : DescId(e) # DescId(c)}],
          ok |-> TRUE]
    ELSE [registry |-> reg, ok |-> FALSE]

\* registry.Register(c): fails when the name was registered before with
\* other dimensions, or when the identity is taken; otherwise attaches c.
RegistryRegisterUnchecked(reg, c) ==
    [registry |-> [collectorsByID |-> reg.collectorsByID \cup {c},
                   dimHashesByName |->
                       reg.dimHashesByName \cup {<<c.fqName, DimHash(c)>>}],
     err |-> "nil"]

RegistryRegister(reg, c) ==
    IF \E d \in reg.dimHashesByName : d[1] = c.fqName /\ d[2] # DimHash(c)
    THEN [registry |-> reg, err |-> "inconsistent descriptor"]
    ELSE IF \E e \in reg.collectorsByID : DescId(e) = DescId(c)
    THEN [registry |-> reg, err |-> "already registered"]
    ELSE [registry |-> [collectorsByID |-> reg.collectorsByID \cup {c},
                        dimHashesByName |->
                            reg.dimHashesByName \cup {<<c.fqName, DimHash(c)>>}],
          err |-> "nil"]

\* One iteration of the loop of NewServer: the registry afterwards and the
\* line logged.
RegisterOne(reg, c) ==
    LET u == RegistryUnregister(reg, c)
        r == RegistryRegister(u.registry, c)
    IN  IF ~u.ok
        THEN [registry |-> r.registry,
              line |-> IF r.err # "nil" THEN "Failed to register metric"
                       ELSE "Registered metric"]
        ELSE [registry |-> u.registry,
              line |-> "Metric already registered; skipping"]

\* The loop of NewServer from index i on.
RECURSIVE RegisterFromAbort(_, _, _)
RegisterFromAbort(reg, lines, i) ==
    IF i > Len(metricsToRegister) THEN [registry |-> reg, lines |-> lines]
    ELSE LET r == RegisterOne(reg, Collector(metricsToRegister[i]))
         IN  IF r.line = "Failed to register metric"
             THEN [registry |-> r.registry,
                   lines |-> Append(lines, <<metricsToRegister[i], r.line>>)]
             ELSE RegisterFromAbort(r.registry,
                      Append(lines, <<metricsToRegister[i], r.line>>), i + 1)

RECURSIVE RegisterFrom(_, _, _)
RegisterFrom(reg, lines, i) ==
    IF i > Len(metricsToRegister) THEN [registry |-> reg, lines |-> lines]
    ELSE LET r == RegisterOne(reg, Collector(metricsToRegister[i]))
         IN  RegisterFrom(r.registry,
                 Append(lines, <<metricsToRegister[i], r.line>>), i + 1)

\* The instruments of Metrics a scrape of m.registry renders.
Attached(reg) == {c.field : c \in reg.collectorsByID} \cap Instruments

----------------------------------------------------------------------------
(* Processes of the concurrent specifications. *)

Workers == {"w1", "w2"}
Updaters == {"u1", "u2"}

IdleWorker == [pc |-> "idle", t |-> <<>>, d |-> 0]
IdleUpdater == [pc |-> "idle", crs |-> <<>>, i |-> 0, live |-> FALSE,
                pre |-> EmptyVec, solo |-> FALSE, n |-> 0]
NoScrape == [taken |-> FALSE, obs |-> EmptyVec, mid |-> FALSE,
             pre |-> EmptyVec, crs |-> <<>>]
NoIssue == [t \in Tuples |-> [calls |-> 0, net |-> 0, raced |-> FALSE,
                               racedNew |-> FALSE, par |-> FALSE]]
Reconcilers == {"r1", "r2"}
IdleReconciler == [pc |-> "idle", c |-> <<>>]
NoPanic == [raised |-> FALSE, expected |-> 0, got |-> 0]
NoHandler == [last |-> "", ok |-> FALSE, changed |-> FALSE, overlap |-> FALSE]
NoCall == [pc |-> "idle", i |-> 0, line |-> "", sent |-> 0, descChan |-> <<>>]

----------------------------------------------------------------------------
(* The state after New: an empty registry, instruments without cells. The  *)
(* recomputation exists in two source variants, with and without Reset;    *)
(* which one is built is fixed for a behaviour.                            *)

Variants == {"Reset", "NoReset"}

Init ==
    /\ registry = NewRegistry
    /\ nsLog = <<>>
    /\ servers = 0
    /\ certificateRequestCount = EmptyVec
    /\ currentCertificateRequestCount = EmptyVec
    /\ variant \in Variants
    /\ log = ""
    /\ lastSnap = <<>>
    /\ wk = [w \in Workers |-> IdleWorker]
    /\ issued = NoIssue
    /\ up = [u \in Updaters |-> IdleUpdater]
    /\ scraped = NoScrape
    /\ panicked = NoPanic
    /\ world = {}
    /\ fresh = NoHandler
    /\ controllerSyncCallCount = EmptyVec
    /\ controllerSyncErrorCount = EmptyVec
    /\ rc = [r \in Reconcilers |-> IdleReconciler]
    /\ ns = NoCall

----------------------------------------------------------------------------
(* Handlers, each as one step (a single caller). *)

\* Metrics.NewServer: the registration loop; the server is returned.
NewServer ==
    /\ servers < MaxServers
    /\ LET r == RegisterFrom(registry, <<>>, 1)
       IN  /\ registry' = r.registry
           /\ nsLog' = r.lines
    /\ servers' = servers + 1
    /\ lastSnap' = <<>>
    /\ UNCHANGED <<vecVars, variant, log, conVars, extVars>>

\* Metrics.IncrementCurrentCertificateRequest(name, namespace, ...)
IncrementCurrentCertificateRequest(t) ==
    /\ t \in DOMAIN certificateRequestCount => certificateRequestCount[t] < MaxGauge
    /\ log' = "Incrementing certificateRequestCount"
    /\ certificateRequestCount' = Add(WithLabelValues(certificateRequestCount, t), t, 1)
    /\ lastSnap' = <<>>
    /\ UNCHANGED <<regVars, currentCertificateRequestCount, variant, conVars, extVars>>

\* Metrics.DecrementCurrentCertificateRequest(name, namespace, ...)
DecrementCurrentCertificateRequest(t) ==
    /\ t \in DOMAIN certificateRequestCount => certificateRequestCount[t] > -MaxGauge
    /\ log' = "Decrementing certificateRequestCount"
    /\ certificateRequestCount' = Add(WithLabelValues(certificateRequestCount, t), t, -1)
    /\ lastSnap' = <<>>
    /\ UNCHANGED <<regVars, currentCertificateRequestCount, variant, conVars, extVars>>

\* The counter vector after UpdateCurrentCertificateRequestCount(crs) in the
\* variant built: Reset then the loop, or the loop alone.
UpdateVec(vec, crs) ==
    IF variant = "Reset" THEN Populate(Reset(vec), crs, 1)
    ELSE Populate(vec, crs, 1)

\* Cells stay within the model's bound (the variant without Reset accumulates).
WithinCount(vec) == \A t \in DOMAIN vec : vec[t] <= MaxCount

\* Metrics.UpdateCurrentCertificateRequestCount(ctx, crs)
UpdateCurrentCertificateRequestCount(crs) ==
    /\ WithinCount(UpdateVec(currentCertificateRequestCount, crs))
    /\ currentCertificateRequestCount' = UpdateVec(currentCertificateRequestCount, crs)
    /\ lastSnap' = <<crs>>
    /\ UNCHANGED <<regVars, certificateRequestCount, variant, log, conVars, extVars>>

\* What m.client.List returns: an error, or the items.
ListError == [err |-> TRUE, items |-> <<>>]
ListResults == {ListError} \cup {[err |-> FALSE, items |-> crs] : crs \in Snapshots}

\* The handler, were it to go on to the recomputation with the nil items of
\* a failed fetch.
HandleRecomputesOnError(res) ==
    /\ WithinCount(UpdateVec(currentCertificateRequestCount, res.items))
    /\ currentCertificateRequestCount' =
           UpdateVec(currentCertificateRequestCount, res.items)
    /\ log' = IF res.err THEN "Error fetching CertificateRequests" ELSE log
    /\ lastSnap' = IF res.err THEN <<>> ELSE <<res.items>>
    /\ UNCHANGED <<regVars, certificateRequestCount, variant, conVars, extVars>>

\* Metrics.HandleCertificateRequestEvent(ctx, cr, event): the changed object
\* and the event are not read.
HandleCertificateRequestEvent(res) ==
    IF res.err
    THEN /\ log' = "Error fetching CertificateRequests"
         /\ lastSnap' = <<>>
         /\ UNCHANGED <<regVars, vecVars, variant, conVars, extVars>>
    ELSE /\ WithinCount(UpdateVec(currentCertificateRequestCount, res.items))
         /\ currentCertificateRequestCount' =
                UpdateVec(currentCertificateRequestCount, res.items)
         /\ lastSnap' = <<res.items>>
         /\ UNCHANGED <<regVars, certificateRequestCount, variant, log, conVars, extVars>>

Next ==
    \/ NewServer
    \/ \E t \in Tuples : IncrementCurrentCertificateRequest(t)
    \/ \E t \in Tuples : DecrementCurrentCertificateRequest(t)
    \/ \E crs \in Snapshots : UpdateCurrentCertificateRequestCount(crs)
    \/ \E res \in ListResults : HandleCertificateRequestEvent(res)

Spec == Init /\ [][Next]_vars

\* What a scrape of the server of NewServer shows per attached instrument
\* of Metrics; the request-count gauge and the sync counters have cells in
\* this model.
Exposition ==
    [f \in Attached(registry) |->
        CASE f = "certificateRequestCount" -> certificateRequestCount
          [] f = "controllerSyncCallCount" -> controllerSyncCallCount
          [] f = "controllerSyncErrorCount" -> controllerSyncErrorCount
          [] OTHER -> EmptyVec]

----------------------------------------------------------------------------
(* Claims on the handlers run one after another (specification Spec).      *)

AllAttachedOnce(reg) ==
    \A f \in Instruments :
        Cardinality({c \in reg.collectorsByID : c.field = f}) = 1

NoFailureLogged(lines) ==
    \A i \in DOMAIN lines : lines[i][2] # "Failed to register metric"

\* C1: after n >= 1 consecutive NewServer calls on the same Metrics object
\* every instrument of the catalogue is attached to the registry exactly
\* once and no registration error was logged.
C1_AttachedOnceAfterEveryNewServer ==
    servers >= 1 => AllAttachedOnce(registry) /\ NoFailureLogged(nsLog)

\* C1, what the code does: the instruments are attached after an odd number
\* of calls and detached after an even number.
C1_AttachedIffOddCalls ==
    /\ servers % 2 = 1 => AllAttachedOnce(registry)
    /\ servers % 2 = 0 => Attached(registry) = {}
    /\ NoFailureLogged(nsLog)

\* C2: after a recomputation with a snapshot, the exposition of the Metrics
\* object shows for current_certificate_request_count, per label tuple, the
\* number of snapshot records with that tuple, whatever the increments and
\* decrements before.
C2_RecomputationOverridesExposedCount ==
    (lastSnap # <<>> /\ "certificateRequestCount" \in Attached(registry))
        => Exposition["certificateRequestCount"] = CountVec(lastSnap[1])

\* C4: a second UpdateCurrentCertificateRequestCount in a row with the same
\* snapshot leaves the request-count vector as the first call left it.
C4_UpdateTwiceSameAsOnce ==
    [][\A crs \in Snapshots :
          (lastSnap = <<crs>> /\ UpdateCurrentCertificateRequestCount(crs))
              => currentCertificateRequestCount' = currentCertificateRequestCount]_vars

\* C4, restricted to the variant that calls Reset.
C4_UpdateTwiceSameAsOnceWithReset ==
    [][\A crs \in Snapshots :
          (variant = "Reset" /\ lastSnap = <<crs>>
             /\ UpdateCurrentCertificateRequestCount(crs))
              => currentCertificateRequestCount' = currentCertificateRequestCount]_vars

\* C5: after UpdateCurrentCertificateRequestCount(snapshot) the request-count
\* vector holds exactly the label tuples of the snapshot, each with the
\* number of records carrying it.
C5_VectorIsSnapshotCounts ==
    lastSnap # <<>> => currentCertificateRequestCount = CountVec(lastSnap[1])

\* C5, restricted to the variant that calls Reset.
C5_VectorIsSnapshotCountsWithReset ==
    (variant = "Reset" /\ lastSnap # <<>>)
        => currentCertificateRequestCount = CountVec(lastSnap[1])

\* C6: after UpdateCurrentCertificateRequestCount with an empty snapshot the
\* request-count vector has no entries.
C6_EmptySnapshotEmptiesVector ==
    [][UpdateCurrentCertificateRequestCount(<<>>)
          => DOMAIN currentCertificateRequestCount' = {}]_vars

\* C6, restricted to the variant that calls Reset.
C6_EmptySnapshotEmptiesVectorWithReset ==
    [][(variant = "Reset" /\ UpdateCurrentCertificateRequestCount(<<>>))
          => DOMAIN currentCertificateRequestCount' = {}]_vars

\* C9: a HandleCertificateRequestEvent whose fetch fails logs the error and
\* leaves the request-count vector and every other instrument, and the
\* registry, exactly as they were.
C9_FetchFailureRetainsValues ==
    [][HandleCertificateRequestEvent(ListError)
          => /\ log' = "Error fetching CertificateRequests"
             /\ UNCHANGED <<vecVars, registry>>]_vars

\* C9 witness: the fetch has just failed and the vector still has its cells.
C9_Witness ==
    /\ log = "Error fetching CertificateRequests"
    /\ lastSnap = <<>>
    /\ DOMAIN currentCertificateRequestCount = Tuples
    /\ DOMAIN certificateRequestCount # {}

----------------------------------------------------------------------------
(* Registration against a registry that other registrants use too          *)
(* (specification SpecConflict).                                           *)

\* A definition that is not one of Metrics and shares the name of
\* instrument f: with other variable label names (kind "labels": the same
\* descriptor identity), or with a constant label (kind "constLabels":
\* another identity). Either way its dimensions differ from those of f.
ForeignCollector(f, kind) ==
    [field |-> "foreign", fqName |-> Desc(f).fqName,
     constLabels |-> IF kind = "constLabels" THEN << <<"origin", "other">> >>
                     ELSE <<>>,
     labels |-> IF kind = "labels" THEN <<"other_key">> ELSE Desc(f).labels]

Foreign == {ForeignCollector(f, k) : f \in Instruments, k \in {"labels", "constLabels"}}

ForeignAttached(reg) == reg.collectorsByID \cap Foreign

\* Another registrant attaches a definition to the registry of Metrics.
AttachForeign(c) ==
    /\ Cardinality(ForeignAttached(registry)) < MaxForeign
    /\ RegistryRegister(registry, c).err = "nil"
    /\ registry' = RegistryRegister(registry, c).registry
    /\ UNCHANGED <<nsLog, servers, vecVars, seqVars, conVars, extVars>>

NextConflict ==
    \/ NewServer
    \/ \E c \in Foreign : AttachForeign(c)

SpecConflict == Init /\ [][NextConflict]_vars

\* Indices of the registration list whose attach failed in the last call.
FailedIn(lines) ==
    {i \in DOMAIN lines : lines[i][2] = "Failed to register metric"}

SameIdentityForeignDetached ==
    [][NewServer =>
          \A c \in ForeignAttached(registry) :
              c.constLabels = <<>> => c \notin registry'.collectorsByID]_vars

\* C11: in every reachable state, after any registrations and
\* unregistrations (repeated NewServer calls, other registrants), the
\* registry holds at most one attached collector per descriptor identity
\* and at most one attached copy of each instrument of Metrics.
C11_AtMostOneAttachedPerDefinition ==
    /\ \A c, e \in registry.collectorsByID : DescId(c) = DescId(e) => c = e
    /\ \A f \in Instruments :
          Cardinality({c \in registry.collectorsByID : c.field = f}) <= 1

\* C11 witness: the third NewServer call has attached every instrument
\* again after the second call detached them; each is attached once.
C11_Witness ==
    /\ servers = 3
    /\ AllAttachedOnce(registry)
    /\ \A i \in DOMAIN nsLog : nsLog[i][2] = "Registered metric"
    /\ Len(nsLog) = Len(metricsToRegister)

----------------------------------------------------------------------------
(* The incremental path called from several goroutines (specification      *)
(* SpecIncDec). A call logs, looks the cell up, creates it when the lookup *)
(* missed (the vector checks again under its write lock), and then adds to *)
(* the cell, which is atomic.                                              *)

InFlight(w) == wk[w].pc # "idle"
RECURSIVE CallsOn(_)
CallsOn(S) ==
    IF S = {} THEN 0
    ELSE LET t == CHOOSE x \in S : TRUE IN issued[t].calls + CallsOn(S \ {t})
TotalCalls == CallsOn(Tuples)

\* Bookkeeping of a call on t by worker w that adds d.
Issue(w, t, d) ==
    [issued EXCEPT ![t] =
        [calls |-> @.calls + 1, net |-> @.net + d,
         raced |-> @.raced \/ \E v \in Workers \ {w} : InFlight(v) /\ wk[v].t = t,
         racedNew |-> @.racedNew
                      \/ /\ t \notin DOMAIN certificateRequestCount
                         /\ \E v \in Workers \ {w} : InFlight(v) /\ wk[v].t = t,
         par |-> @.par \/ \E v \in Workers \ {w} : InFlight(v) /\ wk[v].t # t]]

\* A goroutine enters IncrementCurrentCertificateRequest (d = 1) or
\* DecrementCurrentCertificateRequest (d = -1) and logs.
CallIncDec(w, t, d) ==
    /\ wk[w].pc = "idle"
    /\ TotalCalls < MaxCalls
    /\ wk' = [wk EXCEPT ![w] = [pc |-> "with", t |-> t, d |-> d]]
    /\ issued' = Issue(w, t, d)
    /\ log' = IF d = 1 THEN "Incrementing certificateRequestCount"
              ELSE "Decrementing certificateRequestCount"
    /\ UNCHANGED <<regVars, vecVars, variant, lastSnap, up, scraped, extVars>>

\* m.certificateRequestCount.WithLabelValues(...): the lookup under the
\* read lock of the vector.
StepLookup(w) ==
    /\ wk[w].pc = "with"
    /\ wk' = [wk EXCEPT ![w].pc =
                IF wk[w].t \in DOMAIN certificateRequestCount THEN "add" ELSE "create"]
    /\ UNCHANGED <<regVars, vecVars, seqVars, issued, up, scraped, extVars>>

\* WithLabelValues after a missed lookup: get or create under the write lock.
StepCreate(w) ==
    /\ wk[w].pc = "create"
    /\ certificateRequestCount' = WithLabelValues(certificateRequestCount, wk[w].t)
    /\ wk' = [wk EXCEPT ![w].pc = "add"]
    /\ UNCHANGED <<regVars, currentCertificateRequestCount, seqVars, issued, up, scraped, extVars>>

\* .Inc() / .Dec() on the cell, and the return.
StepAdd(w) ==
    /\ wk[w].pc = "add"
    /\ certificateRequestCount' = Add(certificateRequestCount, wk[w].t, wk[w].d)
    /\ wk' = [wk EXCEPT ![w] = IdleWorker]
    /\ UNCHANGED <<regVars, currentCertificateRequestCount, seqVars, issued, up, scraped, extVars>>

NextIncDec ==
    \/ \E w \in Workers, t \in Tuples : CallIncDec(w, t, 1)
    \/ \E w \in Workers, t \in Tuples : CallIncDec(w, t, -1)
    \/ \E w \in Workers : StepLookup(w)
    \/ \E w \in Workers : StepCreate(w)
    \/ \E w \in Workers : StepAdd(w)

SpecIncDec == Init /\ [][NextIncDec]_vars

AllReturned == \A w \in Workers : ~InFlight(w)

\* The cell of t holds the increments minus the decrements issued for t
\* (and there is no cell when none was issued).
FinalValue(t) ==
    IF issued[t].calls = 0 THEN t \notin DOMAIN certificateRequestCount
    ELSE t \in DOMAIN certificateRequestCount
         /\ certificateRequestCount[t] = issued[t].net

\* The cells of the tuples other than t are the same after the step.
OthersUntouched(t) ==
    \A u \in Tuples \ {t} :
        /\ u \in DOMAIN certificateRequestCount <=> u \in DOMAIN certificateRequestCount'
        /\ u \in DOMAIN certificateRequestCount
              => certificateRequestCount'[u] = certificateRequestCount[u]

\* C7: for concurrent Increment/Decrement calls on distinct label tuples,
\* once all calls have returned each tuple's value is its increments minus
\* its decrements, and no step of a call on one tuple changes the cell of
\* another tuple.
C7_DistinctTuplesIndependent ==
    /\ [](AllReturned =>
            \A t \in Tuples : ~issued[t].raced => FinalValue(t))
    /\ [][\A w \in Workers :
            (StepLookup(w) \/ StepCreate(w) \/ StepAdd(w)) => OthersUntouched(wk[w].t)]_vars

\* C7 witness: calls on the two tuples ran at the same time, never two on
\* the same tuple at once, and all have returned.
C7_Witness ==
    /\ AllReturned
    /\ \A t \in Tuples : issued[t].calls >= 1 /\ issued[t].par /\ ~issued[t].raced
    /\ \E t \in Tuples : certificateRequestCount[t] = -1
    /\ \E t \in Tuples : certificateRequestCount[t] = 2

\* C8: for concurrent increments and decrements of the same label tuple no
\* update is lost: once all calls have returned the value is the number of
\* increments minus the number of decrements, also when the first calls
\* raced to create the cell.
C8_SameTupleNoLostUpdate ==
    AllReturned => \A t \in Tuples : FinalValue(t)

\* C8 witness: calls on one tuple overlapped, the first of them racing to
\* create the cell, and all have returned.
C8_Witness ==
    /\ AllReturned
    /\ \E t \in Tuples :
          /\ issued[t].racedNew
          /\ issued[t].calls = MaxCalls
          /\ certificateRequestCount[t] = 1

----------------------------------------------------------------------------
(* The recomputation with Reset running beside other goroutines and a      *)
(* scrape of the registry that holds the package-level counter vector      *)
(* (specification SpecRecompute). Reset, each With(labels) and each Inc()  *)
(* are separate calls into the vector; each is atomic by itself.           *)

Updating(u) == up[u].pc # "idle"

\* A goroutine enters UpdateCurrentCertificateRequestCount(ctx, crs).
UpdateCall(u, crs) ==
    /\ up[u].pc = "idle"
    /\ up[u].n < MaxUpdates
    /\ up' = [v \in Updaters |->
                IF v = u
                THEN [pc |-> "reset", crs |-> crs, i |-> 1, live |-> FALSE,
                      pre |-> currentCertificateRequestCount,
                      solo |-> \A x \in Updaters \ {u} : ~Updating(x),
                      n |-> up[u].n + 1]
                ELSE [up[v] EXCEPT !.solo = FALSE]]
    /\ UNCHANGED <<regVars, vecVars, seqVars, wk, issued, scraped, extVars>>

\* currentCertificateRequestCount.Reset(): the cells are deleted, so a cell
\* another goroutine holds is no longer in the vector.
UpdateReset(u) ==
    /\ up[u].pc = "reset"
    /\ currentCertificateRequestCount' = Reset(currentCertificateRequestCount)
    /\ up' = [v \in Updaters |->
                IF v = u
                THEN [up[u] EXCEPT !.pc = IF Len(up[u].crs) = 0 THEN "idle" ELSE "with"]
                ELSE [up[v] EXCEPT !.live = FALSE]]
    /\ UNCHANGED <<regVars, certificateRequestCount, seqVars, wk, issued, scraped, extVars>>

\* currentCertificateRequestCount.With(labels) for record i of the loop.
UpdateWith(u) ==
    /\ up[u].pc = "with"
    /\ currentCertificateRequestCount' =
           WithLabelValues(currentCertificateRequestCount,
                           LabelValues(up[u].crs[up[u].i]))
    /\ up' = [up EXCEPT ![u].pc = "inc", ![u].live = TRUE]
    /\ UNCHANGED <<regVars, certificateRequestCount, seqVars, wk, issued, scraped, extVars>>

\* .Inc() on the cell With returned (which a Reset in between has removed
\* from the vector), then the next record or the return.
UpdateInc(u) ==
    /\ up[u].pc = "inc"
    /\ currentCertificateRequestCount' =
           IF up[u].live
           THEN Add(currentCertificateRequestCount, LabelValues(up[u].crs[up[u].i]), 1)
           ELSE currentCertificateRequestCount
    /\ up' = [up EXCEPT ![u].pc = IF up[u].i = Len(up[u].crs) THEN "idle" ELSE "with",
                        ![u].i = @ + 1,
                        ![u].live = FALSE]
    /\ UNCHANGED <<regVars, certificateRequestCount, seqVars, wk, issued, scraped, extVars>>

\* A scrape of the registry holding currentCertificateRequestCount collects
\* the vector at one instant. When exactly one recomputation is in progress,
\* and has been alone since it started, the scrape notes its snapshot and
\* the vector it started from.
ScrapeDefault ==
    /\ scraped' =
         IF \E u \in Updaters :
               Updating(u) /\ up[u].solo /\ \A v \in Updaters \ {u} : ~Updating(v)
         THEN LET u == CHOOSE x \in Updaters : Updating(x)
              IN  [taken |-> TRUE, obs |-> currentCertificateRequestCount, mid |-> TRUE,
                   pre |-> up[u].pre, crs |-> up[u].crs]
         ELSE [taken |-> TRUE, obs |-> currentCertificateRequestCount, mid |-> FALSE,
               pre |-> EmptyVec, crs |-> <<>>]
    /\ UNCHANGED <<regVars, vecVars, seqVars, wk, issued, up, extVars>>

InitRecompute == Init /\ variant = "Reset"

NextRecompute ==
    \/ \E u \in Updaters, crs \in Snapshots : UpdateCall(u, crs)
    \/ \E u \in Updaters : UpdateReset(u)
    \/ \E u \in Updaters : UpdateWith(u)
    \/ \E u \in Updaters : UpdateInc(u)
    \/ ScrapeDefault

SpecRecompute == InitRecompute /\ [][NextRecompute]_vars

\* C3: a scrape concurrent with a reset-then-repopulate recomputation
\* observes the complete vector from before the Reset or the complete
\* repopulated vector, never a state in between.
C3_ScrapeSeesPreOrPostVector ==
    (scraped.taken /\ scraped.mid)
        => scraped.obs \in {scraped.pre, CountVec(scraped.crs)}

\* C3, what the code does: the scrape observes a vector whose cells are
\* cells of the snapshot with at most the snapshot's counts, or the vector
\* from before the Reset.
C3_ScrapeSeesPartialVector ==
    (scraped.taken /\ scraped.mid)
        => \/ scraped.obs = scraped.pre
           \/ /\ DOMAIN scraped.obs \subseteq DOMAIN CountVec(scraped.crs)
              /\ \A t \in DOMAIN scraped.obs :
                    scraped.obs[t] <= CountVec(scraped.crs)[t]

\* Every goroutine has called the recomputation, with one and the same
\* snapshot, and all calls have returned.
AllUpdatedSameSnapshot ==
    /\ \A u \in Updaters : ~Updating(u) /\ up[u].n >= 1
    /\ \A u, v \in Updaters : up[u].crs = up[v].crs

\* C14: when two UpdateCurrentCertificateRequestCount calls with the same
\* snapshot run concurrently, once both have returned each label tuple's
\* value is the number of snapshot records with that tuple.
C14_ConcurrentUpdatesSameSnapshot ==
    AllUpdatedSameSnapshot
        => \A u \in Updaters : currentCertificateRequestCount = CountVec(up[u].crs)

\* C14, what the code does: the cells are cells of the snapshot, each with
\* at most the snapshot's count once per call.
C14_AtMostCountedPerCall ==
    AllUpdatedSameSnapshot
        => \A u \in Updaters :
              /\ DOMAIN currentCertificateRequestCount \subseteq DOMAIN CountVec(up[u].crs)
              /\ \A t \in DOMAIN currentCertificateRequestCount :
                    currentCertificateRequestCount[t]
                        <= Cardinality(Updaters) * CountVec(up[u].crs)[t]

----------------------------------------------------------------------------
(* HandleCertificateRequestEvent called from several goroutines while      *)
(* CertificateRequests are created and deleted (specification SpecHandle): *)
(* the fetch, then the steps of the recomputation with Reset. Nothing      *)
(* orders the handlers of different goroutines.                            *)

\* The item lists m.client.List can return for the requests that exist:
\* each request once, in any order.
Listings(w) ==
    {crs \in Snapshots :
        Len(crs) = Cardinality(w) /\ {crs[i] : i \in DOMAIN crs} = w}

\* The vector that counts the requests that exist per label tuple.
WorldVec(w) ==
    [t \in {LabelValues(cr) : cr \in w} |->
        Cardinality({cr \in w : LabelValues(cr) = t})]

\* A CertificateRequest is created or deleted in the cluster.
ChangeWorld(cr) ==
    /\ world' = IF cr \in world THEN world \ {cr} ELSE world \cup {cr}
    /\ fresh' = [fresh EXCEPT !.changed = TRUE]
    /\ UNCHANGED <<regVars, vecVars, seqVars, conVars, panicked, syncVars, ns>>

\* A goroutine enters HandleCertificateRequestEvent.
HandleCall(u) ==
    /\ up[u].pc = "idle"
    /\ up[u].n < MaxUpdates
    /\ up' = [up EXCEPT ![u] = [IdleUpdater EXCEPT !.pc = "fetch", !.n = up[u].n + 1]]
    /\ fresh' = [last |-> u, ok |-> FALSE, changed |-> FALSE,
                 overlap |-> fresh.overlap \/ \E v \in Updaters \ {u} : Updating(v)]
    /\ UNCHANGED <<regVars, vecVars, seqVars, wk, issued, scraped, panicked,
                   world, syncVars, ns>>

\* getCurrentCertificateRequests returns: on an error the handler logs and
\* returns, otherwise it goes on to UpdateCurrentCertificateRequestCount
\* with the items.
HandleFetch(u, res) ==
    /\ up[u].pc = "fetch"
    /\ ~res.err => res.items \in Listings(world)
    /\ up' = [up EXCEPT ![u].pc = IF res.err THEN "idle" ELSE "reset",
                        ![u].crs = res.items,
                        ![u].i = 1]
    /\ log' = IF res.err THEN "Error fetching CertificateRequests" ELSE log
    /\ fresh' = IF fresh.last = u THEN [fresh EXCEPT !.ok = ~res.err] ELSE fresh
    /\ UNCHANGED <<regVars, vecVars, variant, lastSnap, wk, issued, scraped,
                   panicked, world, syncVars, ns>>

NextHandle ==
    \/ \E cr \in CertificateRequests : ChangeWorld(cr)
    \/ \E u \in Updaters : HandleCall(u)
    \/ \E u \in Updaters, res \in ListResults : HandleFetch(u, res)
    \/ \E u \in Updaters : UpdateReset(u)
    \/ \E u \in Updaters : UpdateWith(u)
    \/ \E u \in Updaters : UpdateInc(u)

SpecHandle == InitRecompute /\ [][NextHandle]_vars

\* No handler is in progress, the last handler started fetched the list,
\* and no request was created or deleted since it started.
Quiescent ==
    /\ \A u \in Updaters : ~Updating(u)
    /\ fresh.last # ""
    /\ fresh.ok
    /\ ~fresh.changed

\* C13: whenever no HandleCertificateRequestEvent is in progress, the set
\* of CertificateRequests has not changed since the last handler started
\* and that handler's fetch succeeded, the request-count vector holds per
\* label tuple the number of requests that exist, for every interleaving of
\* concurrent handlers.
C13_QuiescentVectorMatchesWorld ==
    Quiescent => currentCertificateRequestCount = WorldVec(world)

\* C13, what the code does: the vector matches when no two handlers have
\* ever run at the same time.
C13_MatchesWithoutOverlap ==
    (Quiescent /\ ~fresh.overlap)
        => currentCertificateRequestCount = WorldVec(world)

----------------------------------------------------------------------------
(* The variadic update calls (specification SpecArity). The gauge vector   *)
(* they name, m.currentCertificateRequestGauge, is the request-count gauge *)
(* of Metrics. WithLabelValues panics when the number of label values is   *)
(* not the number of label names of the vector; neither function recovers, *)
(* so the panic reaches the caller.                                        *)

MaxExtra == 1        \* label values a call passes beyond the five label names

\* The argument lists a caller passes: prefixes of a label tuple, and a
\* label tuple followed by further values.
RECURSIVE Extend(_, _)
Extend(t, n) == IF n = 0 THEN t ELSE Append(Extend(t, n - 1), "extra")
LabelLists ==
    {SubSeq(t, 1, n) : t \in Tuples, n \in 0..Len(LabelsCR)}
        \cup {Extend(t, n) : t \in Tuples, n \in 1..MaxExtra}

\* The check of WithLabelValues on the number of label values.
LabelCardinalityAny(labels, names) == TRUE

LabelCardinalityOk(labels, names) == Len(labels) = Len(names)

\* The panic value: inconsistent label cardinality, expected n, got k.
LabelCardinalityPanic(labels, names) ==
    [raised |-> TRUE, expected |-> Len(names), got |-> Len(labels)]

\* m.currentCertificateRequestGauge.WithLabelValues(labels...) followed by
\* Inc() (d = 1) or Dec() (d = -1).
WithLabelValuesAdd(labels, d) ==
    IF LabelCardinalityOk(labels, LabelsCR)
    THEN /\ labels \in DOMAIN certificateRequestCount
                => certificateRequestCount[labels] * d < MaxGauge
         /\ certificateRequestCount' =
                Add(WithLabelValues(certificateRequestCount, labels), labels, d)
         /\ panicked' = NoPanic
    ELSE /\ panicked' = LabelCardinalityPanic(labels, LabelsCR)
         /\ UNCHANGED certificateRequestCount

\* Metrics.IncrementCertificateRequestCount(labels ...string)
IncrementCertificateRequestCount(labels) ==
    /\ WithLabelValuesAdd(labels, 1)
    /\ UNCHANGED <<regVars, currentCertificateRequestCount, seqVars, conVars,
                   envVars, syncVars, ns>>

\* Metrics.DecrementCertificateRequestCount(labels ...string)
DecrementCertificateRequestCount(labels) ==
    /\ WithLabelValuesAdd(labels, -1)
    /\ UNCHANGED <<regVars, currentCertificateRequestCount, seqVars, conVars,
                   envVars, syncVars, ns>>

NextArity ==
    \/ \E labels \in LabelLists : IncrementCertificateRequestCount(labels)
    \/ \E labels \in LabelLists : DecrementCertificateRequestCount(labels)

SpecArity == Init /\ [][NextArity]_vars

\* C12: an update call whose label values are not as many as the label
\* names of the instrument fails at once with a panic carrying the expected
\* and the supplied number, which reaches the caller; no cell is created or
\* changed, in any instrument.
C12_ArityMismatchPanicsAndChangesNothing ==
    [][\A labels \in LabelLists :
          (/\ Len(labels) # Len(LabelsCR)
           /\ \/ IncrementCertificateRequestCount(labels)
              \/ DecrementCertificateRequestCount(labels))
              => /\ panicked'.raised
                 /\ panicked'.expected = Len(LabelsCR)
                 /\ panicked'.got = Len(labels)
                 /\ UNCHANGED <<vecVars, controllerSyncCallCount,
                                controllerSyncErrorCount, registry>>]_vars

\* C12 witness: a call with three label values has just panicked and the
\* cells made by earlier calls are as they were.
C12_Witness ==
    /\ panicked.raised
    /\ panicked.got = 3
    /\ DOMAIN certificateRequestCount = Tuples
    /\ \E t \in Tuples : certificateRequestCount[t] = -1

----------------------------------------------------------------------------
(* The sync counters of the controllers (specification SpecSync). A        *)
(* reconciliation attempt of a controller calls IncrementSyncCallCount,    *)
(* runs its sync, and calls IncrementSyncErrorCount when the sync failed.  *)
(* Attempts of several workers interleave.                                 *)

MaxSyncs == 2        \* value of a cell of the sync call counter

Controllers == {"certificates", "issuers"}

\* The value a scrape shows for label tuple t: that of its cell, if any.
Val(vec, t) == IF t \in DOMAIN vec THEN vec[t] ELSE 0

\* The call, were it to count in the error counter.
IncrementSyncCallCountAsError(r, c) ==
    /\ rc[r].pc = "idle"
    /\ Val(controllerSyncCallCount, <<c>>) < MaxSyncs
    /\ Val(controllerSyncErrorCount, <<c>>) < MaxSyncs
    /\ controllerSyncErrorCount' =
           Add(WithLabelValues(controllerSyncErrorCount, <<c>>), <<c>>, 1)
    /\ rc' = [rc EXCEPT ![r] = [pc |-> "synced", c |-> <<c>>]]
    /\ UNCHANGED <<regVars, vecVars, seqVars, conVars, panicked, envVars,
                   controllerSyncCallCount, ns>>

\* Metrics.IncrementSyncCallCount(controllerName), called by worker r at
\* the start of an attempt.
IncrementSyncCallCount(r, c) ==
    /\ rc[r].pc = "idle"
    /\ Val(controllerSyncCallCount, <<c>>) < MaxSyncs
    /\ controllerSyncCallCount' =
           Add(WithLabelValues(controllerSyncCallCount, <<c>>), <<c>>, 1)
    /\ rc' = [rc EXCEPT ![r] = [pc |-> "synced", c |-> <<c>>]]
    /\ UNCHANGED <<regVars, vecVars, seqVars, conVars, panicked, envVars,
                   controllerSyncErrorCount, ns>>

\* The sync of worker r succeeded: the attempt ends.
SyncSucceeded(r) ==
    /\ rc[r].pc = "synced"
    /\ rc' = [rc EXCEPT ![r] = IdleReconciler]
    /\ UNCHANGED <<regVars, vecVars, seqVars, conVars, panicked, envVars,
                   controllerSyncCallCount, controllerSyncErrorCount, ns>>

\* Metrics.IncrementSyncErrorCount(controllerName), called by worker r
\* when its sync failed; the attempt ends.
IncrementSyncErrorCount(r, c) ==
    /\ rc[r] = [pc |-> "synced", c |-> <<c>>]
    /\ controllerSyncErrorCount' =
           Add(WithLabelValues(controllerSyncErrorCount, <<c>>), <<c>>, 1)
    /\ rc' = [rc EXCEPT ![r] = IdleReconciler]
    /\ UNCHANGED <<regVars, vecVars, seqVars, conVars, panicked, envVars,
                   controllerSyncCallCount, ns>>

NextSync ==
    \/ \E r \in Reconcilers, c \in Controllers : IncrementSyncCallCount(r, c)
    \/ \E r \in Reconcilers : SyncSucceeded(r)
    \/ \E r \in Reconcilers, c \in Controllers : IncrementSyncErrorCount(r, c)

SpecSync == Init /\ [][NextSync]_vars

\* The vector new is old with the cell of t raised by one (made first if
\* old has none) and every other cell as it was.
RaisedByOne(old, new, t) ==
    new = [u \in DOMAIN old \cup {t} |-> IF u = t THEN Val(old, t) + 1 ELSE old[u]]

\* C18: IncrementSyncCallCount(c) raises the call-count cell of c by
\* exactly one and leaves every other cell and instrument unchanged, and
\* likewise IncrementSyncErrorCount for the error count; with each attempt
\* counting the call first and the error only afterwards, the error count
\* of a controller is never above its call count, for any interleaving of
\* workers.
C18_SyncCountsRaisedByOneAndErrorsAtMostCalls ==
    /\ [](\A c \in Controllers :
            Val(controllerSyncErrorCount, <<c>>) <= Val(controllerSyncCallCount, <<c>>))
    /\ [][\A r \in Reconcilers, c \in Controllers :
            /\ IncrementSyncCallCount(r, c)
                  => /\ RaisedByOne(controllerSyncCallCount,
                                    controllerSyncCallCount', <<c>>)
                     /\ UNCHANGED <<controllerSyncErrorCount, vecVars, registry>>
            /\ IncrementSyncErrorCount(r, c)
                  => /\ RaisedByOne(controllerSyncErrorCount,
                                    controllerSyncErrorCount', <<c>>)
                     /\ UNCHANGED <<controllerSyncCallCount, vecVars, registry>>]_vars

\* C18 witness: one controller has failed once in two attempts, the other
\* has an attempt in progress beside it that has counted its call only.
C18_Witness ==
    /\ \E c \in Controllers :
          /\ Val(controllerSyncCallCount, <<c>>) = 2
          /\ Val(controllerSyncErrorCount, <<c>>) = 1
    /\ \E c \in Controllers, r \in Reconcilers :
          /\ rc[r] = [pc |-> "synced", c |-> <<c>>]
          /\ controllerSyncCallCount[<<c>>] = 1
          /\ <<c>> \notin DOMAIN controllerSyncErrorCount

\* No cell of vector old is missing from new or lower in new.
MonotoneStep(old, new) ==
    \A t \in DOMAIN old : t \in DOMAIN new /\ new[t] >= old[t]

\* C15: every counter-kind instrument is monotone: no step lowers the
\* value of a label tuple of controller_sync_call_count, of
\* controller_sync_error_count or of the counter vector declared for
\* current_certificate_request_count, and none removes a tuple of theirs.
C15_CountersMonotone ==
    [][/\ MonotoneStep(controllerSyncCallCount, controllerSyncCallCount')
       /\ MonotoneStep(controllerSyncErrorCount, controllerSyncErrorCount')
       /\ MonotoneStep(currentCertificateRequestCount,
                       currentCertificateRequestCount')]_vars

\* C15, what the code does: the two sync counters are monotone.
C15_SyncCountersMonotone ==
    [][/\ MonotoneStep(controllerSyncCallCount, controllerSyncCallCount')
       /\ MonotoneStep(controllerSyncErrorCount, controllerSyncErrorCount')]_vars

\* C15, what the code does: without Reset the request counter is monotone.
C15_RequestCounterMonotoneWithoutReset ==
    [][variant = "NoReset"
          => MonotoneStep(currentCertificateRequestCount,
                          currentCertificateRequestCount')]_vars

----------------------------------------------------------------------------
(* The /metrics handler of the server NewServer returns, serving scrapes   *)
(* between NewServer calls and calls of the incremental path               *)
(* (specification SpecScrape).                                             *)

\* The handler, were it to clear the request-count gauge once rendered.
ServeMetricsAndReset ==
    /\ servers >= 1
    /\ scraped' = [NoScrape EXCEPT !.taken = TRUE, !.obs = Exposition]
    /\ certificateRequestCount' = Reset(certificateRequestCount)
    /\ UNCHANGED <<regVars, currentCertificateRequestCount, seqVars, wk, issued,
                   up, extVars>>

\* promhttp.HandlerFor(m.registry, ...) serves a scrape: it gathers the
\* attached instruments and renders their cells.
ServeMetrics ==
    /\ servers >= 1
    /\ scraped' = [NoScrape EXCEPT !.taken = TRUE, !.obs = Exposition]
    /\ UNCHANGED <<regVars, vecVars, seqVars, wk, issued, up, extVars>>

NextScrape ==
    \/ NewServer
    \/ \E t \in Tuples : IncrementCurrentCertificateRequest(t)
    \/ \E t \in Tuples : DecrementCurrentCertificateRequest(t)
    \/ ServeMetrics

SpecScrape == Init /\ [][NextScrape]_vars

\* The vector new is old with the cell of t at d above its former value
\* (0 when old has no cell of t) and every other cell as it was.
CellMoved(old, new, t, d) ==
    /\ DOMAIN new = DOMAIN old \cup {t}
    /\ new[t] = Val(old, t) + d
    /\ \A u \in DOMAIN old \ {t} : new[u] = old[u]

\* C16: on the incremental path the cell of a label tuple is created the
\* first time Increment or Decrement touches the tuple and is never
\* removed by that path: a decrement after an increment leaves the tuple
\* with value 0, and a decrement of a tuple never seen creates it with -1.
C16_CellCreatedOnFirstTouchNeverEvicted ==
    [][\A t \in Tuples :
          /\ IncrementCurrentCertificateRequest(t)
                => CellMoved(certificateRequestCount, certificateRequestCount', t, 1)
          /\ DecrementCurrentCertificateRequest(t)
                => /\ CellMoved(certificateRequestCount, certificateRequestCount', t, -1)
                   /\ t \notin DOMAIN certificateRequestCount
                         => certificateRequestCount'[t] = -1
                   /\ (t \in DOMAIN certificateRequestCount
                          /\ certificateRequestCount[t] = 1)
                         => /\ t \in DOMAIN certificateRequestCount'
                            /\ certificateRequestCount'[t] = 0]_vars

\* C16 witness: a scrape shows one tuple with value 0 (incremented, then
\* decremented) and the other with value -1 (decremented only).
C16_Witness ==
    /\ scraped.taken
    /\ "certificateRequestCount" \in DOMAIN scraped.obs
    /\ \E t, u \in Tuples :
          /\ DOMAIN scraped.obs["certificateRequestCount"] = {t, u}
          /\ scraped.obs["certificateRequestCount"][t] = 0
          /\ scraped.obs["certificateRequestCount"][u] = -1
    /\ log = "Decrementing certificateRequestCount"

\* C17: serving a scrape changes nothing: the attached instruments and the
\* tuples and values of every instrument are the same after the scrape as
\* before it, and so is what the next scrape shows, however many scrapes
\* are interleaved with the other operations.
C17_ScrapeChangesNothing ==
    [][ServeMetrics =>
          /\ UNCHANGED <<registry, vecVars, controllerSyncCallCount,
                         controllerSyncErrorCount>>
          /\ Exposition' = Exposition
          /\ scraped'.obs = Exposition']_vars

\* C17 witness: a scrape has shown every instrument with the cells of the
\* request-count gauge, and the instruments are as the scrape showed them.
C17_Witness ==
    /\ scraped.taken
    /\ DOMAIN scraped.obs = Instruments
    /\ DOMAIN scraped.obs["certificateRequestCount"] = Tuples
    /\ scraped.obs = Exposition
    /\ servers = 3

----------------------------------------------------------------------------
(* NewServer step by step (specification SpecNewServer): per instrument    *)
(* the Unregister probe and the Register, then Describe into a fresh       *)
(* one-slot channel, then the receive and the log line. Other registrants  *)
(* attach definitions to the registry at any point.                        *)

DescChanCap == 1     \* make(chan *prometheus.Desc, 1)

\* The descriptors metric.Describe sends, in order: a vector or a function
\* instrument has one.
DescribeTwice(c) == <<DescId(c), DescId(c)>>

Describe(c) == <<DescId(c)>>

\* The definitions other registrants attach in this specification: those
\* sharing the name of the first or of the last instrument of the list.
Registrants ==
    {ForeignCollector(f, k) :
        f \in {metricsToRegister[1], metricsToRegister[Len(metricsToRegister)]},
        k \in {"labels", "constLabels"}}

InCall == ns.pc # "idle"

\* NewServer is called: metricsToRegister is built and the loop starts.
NewServerCall ==
    /\ ns.pc = "idle"
    /\ servers < MaxServers
    /\ ns' = [NoCall EXCEPT !.pc = "loop", !.i = 1]
    /\ nsLog' = <<>>
    /\ UNCHANGED <<registry, servers, vecVars, seqVars, conVars, panicked,
                   envVars, syncVars>>

\* m.registry.Unregister(metric) and, if it was not registered,
\* m.registry.Register(metric); then descChan is made.
LoopRegister ==
    /\ ns.pc = "loop"
    /\ ns.i <= Len(metricsToRegister)
    /\ LET r == RegisterOne(registry, Collector(metricsToRegister[ns.i]))
       IN  /\ registry' = r.registry
           /\ ns' = [ns EXCEPT !.pc = "describe", !.line = r.line,
                               !.sent = 0, !.descChan = <<>>]
    /\ UNCHANGED <<nsLog, servers, vecVars, seqVars, conVars, panicked,
                   envVars, syncVars>>

\* metric.Describe(descChan): the send of the next descriptor, which waits
\* while the channel is full; Describe returns after the last one.
LoopDescribe ==
    /\ ns.pc = "describe"
    /\ ns.sent < Len(Describe(Collector(metricsToRegister[ns.i])))
    /\ Len(ns.descChan) < DescChanCap
    /\ ns' = [ns EXCEPT
                !.descChan = Append(@, Describe(Collector(metricsToRegister[ns.i]))[ns.sent + 1]),
                !.sent = @ + 1,
                !.pc = IF ns.sent + 1 = Len(Describe(Collector(metricsToRegister[ns.i])))
                       THEN "receive" ELSE "describe"]
    /\ UNCHANGED <<regVars, vecVars, seqVars, conVars, panicked, envVars, syncVars>>

\* desc := <-descChan, which waits while the channel is empty, and the log
\* line of the iteration.
LoopReceive ==
    /\ ns.pc = "receive"
    /\ Len(ns.descChan) > 0
    /\ nsLog' = Append(nsLog, <<metricsToRegister[ns.i], ns.line>>)
    /\ ns' = [NoCall EXCEPT !.pc = "loop", !.i = ns.i + 1]
    /\ UNCHANGED <<registry, servers, vecVars, seqVars, conVars, panicked,
                   envVars, syncVars>>

\* After the loop: the mux and the server are built and returned.
LoopReturn ==
    /\ ns.pc = "loop"
    /\ ns.i > Len(metricsToRegister)
    /\ servers' = servers + 1
    /\ ns' = NoCall
    /\ UNCHANGED <<registry, nsLog, vecVars, seqVars, conVars, panicked,
                   envVars, syncVars>>

NewServerStep == LoopRegister \/ LoopDescribe \/ LoopReceive \/ LoopReturn

NextNewServer ==
    \/ NewServerCall
    \/ LoopRegister
    \/ LoopDescribe
    \/ LoopReceive
    \/ LoopReturn
    \/ \E c \in Registrants : AttachForeign(c)

SpecNewServer == Init /\ [][NextNewServer]_vars

\* Steps the call in progress has left until it returns.
Remaining ==
    LET left == Len(metricsToRegister) + 1 - ns.i
    IN  CASE ns.pc = "idle" -> 0
          [] ns.pc = "loop" -> 3 * left + 1
          [] ns.pc = "describe" -> 3 * left
          [] ns.pc = "receive" -> 3 * left - 1

\* The instruments the lines of the log are about, in order.
Logged == [j \in DOMAIN nsLog |-> nsLog[j][1]]

\* C19: NewServer always terminates: a call in progress can always take
\* its next step (the send into the one-slot channel and the receive from
\* it never wait), each step brings the return nearer, the loop processes
\* the eleven instruments once each in list order whatever the outcome of
\* each, and the server is returned in every case.
C19_NewServerTerminates ==
    /\ [](InCall => ENABLED NewServerStep)
    /\ [](InCall => Remaining > 0)
    /\ [][NewServerStep => Remaining' < Remaining]_vars
    /\ [](InCall => /\ Logged = SubSeq(metricsToRegister, 1, ns.i - 1)
                    /\ Len(ns.descChan) <= DescChanCap)
    /\ [][LoopReturn => /\ Logged = metricsToRegister
                        /\ servers' = servers + 1
                        /\ ~InCall']_vars

\* C19 witness: a call has returned a server after an iteration of each
\* outcome: attached, already present, and failed against a conflict.
C19_Witness ==
    /\ ~InCall
    /\ servers >= 1
    /\ Len(nsLog) = Len(metricsToRegister)
    /\ \E i, j, k \in DOMAIN nsLog :
          /\ nsLog[i][2] = "Registered metric"
          /\ nsLog[j][2] = "Metric already registered; skipping"
          /\ nsLog[k][2] = "Failed to register metric"

====
